---- MODULE Spec2Model ----
(***************************************************************************)
(* forecasttools: the location registry (recode_locations.py), the         *)
(* constants derived from the location table (constants.py) and the        *)
(* column order of the hubverse submission table.                          *)
(*                                                                         *)
(* A state is one caller session against the imported package: the         *)
(* process-wide location_table, the Python list objects behind             *)
(* HUB_LOCATIONS (heap), the table the caller passes in (df), the list the *)
(* caller got from get_hub_locations (held), and the records of the last   *)
(* two calls (prev, ret).                                                  *)
(***************************************************************************)
EXTENDS Integers, Sequences, FiniteSets, TLC

VARIABLES location_table, heap, df, held, prev, ret

vars == <<location_table, heap, df, held, prev, ret>>

(* ----------------------------- bounds --------------------------------- *)

\* most rows of a table the caller passes in
MaxRows == 2

\* most elements a caller appends to a list it was handed
MaxAppend == 1

(* ----------------------------- strings -------------------------------- *)

\* the code points of the strings whose characters the code looks at
\* (location codes are sorted, hub names are lower-cased)
StrChars ==
    "US" :> <<85, 83>> @@ "01" :> <<48, 49>> @@ "02" :> <<48, 50>> @@
    "04" :> <<48, 52>> @@ "05" :> <<48, 53>> @@ "06" :> <<48, 54>> @@
    "08" :> <<48, 56>> @@ "09" :> <<48, 57>> @@ "10" :> <<49, 48>> @@
    "11" :> <<49, 49>> @@ "12" :> <<49, 50>> @@ "13" :> <<49, 51>> @@
    "15" :> <<49, 53>> @@ "16" :> <<49, 54>> @@ "17" :> <<49, 55>> @@
    "18" :> <<49, 56>> @@ "19" :> <<49, 57>> @@ "20" :> <<50, 48>> @@
    "21" :> <<50, 49>> @@ "22" :> <<50, 50>> @@ "23" :> <<50, 51>> @@
    "24" :> <<50, 52>> @@ "25" :> <<50, 53>> @@ "26" :> <<50, 54>> @@
    "27" :> <<50, 55>> @@ "28" :> <<50, 56>> @@ "29" :> <<50, 57>> @@
    "30" :> <<51, 48>> @@ "31" :> <<51, 49>> @@ "32" :> <<51, 50>> @@
    "33" :> <<51, 51>> @@ "34" :> <<51, 52>> @@ "35" :> <<51, 53>> @@
    "36" :> <<51, 54>> @@ "37" :> <<51, 55>> @@ "38" :> <<51, 56>> @@
    "39" :> <<51, 57>> @@ "40" :> <<52, 48>> @@ "41" :> <<52, 49>> @@
    "42" :> <<52, 50>> @@ "44" :> <<52, 52>> @@ "45" :> <<52, 53>> @@
    "46" :> <<52, 54>> @@ "47" :> <<52, 55>> @@ "48" :> <<52, 56>> @@
    "49" :> <<52, 57>> @@ "50" :> <<53, 48>> @@ "51" :> <<53, 49>> @@
    "53" :> <<53, 51>> @@ "54" :> <<53, 52>> @@ "55" :> <<53, 53>> @@
    "56" :> <<53, 54>> @@ "60" :> <<54, 48>> @@ "66" :> <<54, 54>> @@
    "69" :> <<54, 57>> @@ "72" :> <<55, 50>> @@ "74" :> <<55, 52>> @@
    "78" :> <<55, 56>> @@ "99" :> <<57, 57>> @@
    "flusight" :> <<102, 108, 117, 115, 105, 103, 104, 116>> @@
    "FluSight" :> <<70, 108, 117, 83, 105, 103, 104, 116>> @@
    "covid" :> <<99, 111, 118, 105, 100>> @@ "COVID" :> <<67, 79, 86, 73, 68>> @@
    "rsv" :> <<114, 115, 118>> @@ "flu" :> <<102, 108, 117>>

Chars(s) == StrChars[s]

FromChars(cs) == CHOOSE s \in DOMAIN StrChars : StrChars[s] = cs

\* str.lower() on one ASCII character
LowerChar(c) == IF c >= 65 /\ c <= 90 THEN c + 32 ELSE c

\* str.lower(), of every string of StrChars
LowerOf ==
  [s \in DOMAIN StrChars |->
    FromChars([i \in 1..Len(Chars(s)) |-> LowerChar(Chars(s)[i])])]

Lower(s) == LowerOf[s]

RECURSIVE SeqLT(_, _)
SeqLT(x, y) ==
  IF x = <<>> THEN y # <<>>
  ELSE IF y = <<>> THEN FALSE
  ELSE IF Head(x) # Head(y) THEN Head(x) < Head(y)
  ELSE SeqLT(Tail(x), Tail(y))

\* the order of strings that sort("location_code") uses: by code point
StrLT(a, b) == SeqLT(Chars(a), Chars(b))

(* --------------------------- sequences -------------------------------- *)

Range(s) == {s[i] : i \in 1..Len(s)}

\* v in s, for a list or a column s
In(v, s) == \E i \in 1..Len(s) : s[i] = v

Reverse(s) == [i \in 1..Len(s) |-> s[Len(s) + 1 - i]]

\* how many entries of s equal v
Count(s, v) == Cardinality({i \in 1..Len(s) : s[i] = v})

\* the first index of v in s (v is in s)
IndexOf(s, v) == CHOOSE i \in 1..Len(s) : s[i] = v /\ \A j \in 1..(i - 1) : s[j] # v

(* ------------------------- the location table ------------------------- *)

\* location_table.parquet: US, the 50 states and DC by FIPS code, the territories
LocationTableFile ==
  <<
    [location_code |-> "US", short_name |-> "US", long_name |-> "United States", is_state |-> FALSE],
    [location_code |-> "01", short_name |-> "AL", long_name |-> "Alabama", is_state |-> TRUE],
    [location_code |-> "02", short_name |-> "AK", long_name |-> "Alaska", is_state |-> TRUE],
    [location_code |-> "04", short_name |-> "AZ", long_name |-> "Arizona", is_state |-> TRUE],
    [location_code |-> "05", short_name |-> "AR", long_name |-> "Arkansas", is_state |-> TRUE],
    [location_code |-> "06", short_name |-> "CA", long_name |-> "California", is_state |-> TRUE],
    [location_code |-> "08", short_name |-> "CO", long_name |-> "Colorado", is_state |-> TRUE],
    [location_code |-> "09", short_name |-> "CT", long_name |-> "Connecticut", is_state |-> TRUE],
    [location_code |-> "10", short_name |-> "DE", long_name |-> "Delaware", is_state |-> TRUE],
    [location_code |-> "11", short_name |-> "DC", long_name |-> "District of Columbia", is_state |-> FALSE],
    [location_code |-> "12", short_name |-> "FL", long_name |-> "Florida", is_state |-> TRUE],
    [location_code |-> "13", short_name |-> "GA", long_name |-> "Georgia", is_state |-> TRUE],
    [location_code |-> "15", short_name |-> "HI", long_name |-> "Hawaii", is_state |-> TRUE],
    [location_code |-> "16", short_name |-> "ID", long_name |-> "Idaho", is_state |-> TRUE],
    [location_code |-> "17", short_name |-> "IL", long_name |-> "Illinois", is_state |-> TRUE],
    [location_code |-> "18", short_name |-> "IN", long_name |-> "Indiana", is_state |-> TRUE],
    [location_code |-> "19", short_name |-> "IA", long_name |-> "Iowa", is_state |-> TRUE],
    [location_code |-> "20", short_name |-> "KS", long_name |-> "Kansas", is_state |-> TRUE],
    [location_code |-> "21", short_name |-> "KY", long_name |-> "Kentucky", is_state |-> TRUE],
    [location_code |-> "22", short_name |-> "LA", long_name |-> "Louisiana", is_state |-> TRUE],
    [location_code |-> "23", short_name |-> "ME", long_name |-> "Maine", is_state |-> TRUE],
    [location_code |-> "24", short_name |-> "MD", long_name |-> "Maryland", is_state |-> TRUE],
    [location_code |-> "25", short_name |-> "MA", long_name |-> "Massachusetts", is_state |-> TRUE],
    [location_code |-> "26", short_name |-> "MI", long_name |-> "Michigan", is_state |-> TRUE],
    [location_code |-> "27", short_name |-> "MN", long_name |-> "Minnesota", is_state |-> TRUE],
    [location_code |-> "28", short_name |-> "MS", long_name |-> "Mississippi", is_state |-> TRUE],
    [location_code |-> "29", short_name |-> "MO", long_name |-> "Missouri", is_state |-> TRUE],
    [location_code |-> "30", short_name |-> "MT", long_name |-> "Montana", is_state |-> TRUE],
    [location_code |-> "31", short_name |-> "NE", long_name |-> "Nebraska", is_state |-> TRUE],
    [location_code |-> "32", short_name |-> "NV", long_name |-> "Nevada", is_state |-> TRUE],
    [location_code |-> "33", short_name |-> "NH", long_name |-> "New Hampshire", is_state |-> TRUE],
    [location_code |-> "34", short_name |-> "NJ", long_name |-> "New Jersey", is_state |-> TRUE],
    [location_code |-> "35", short_name |-> "NM", long_name |-> "New Mexico", is_state |-> TRUE],
    [location_code |-> "36", short_name |-> "NY", long_name |-> "New York", is_state |-> TRUE],
    [location_code |-> "37", short_name |-> "NC", long_name |-> "North Carolina", is_state |-> TRUE],
    [location_code |-> "38", short_name |-> "ND", long_name |-> "North Dakota", is_state |-> TRUE],
    [location_code |-> "39", short_name |-> "OH", long_name |-> "Ohio", is_state |-> TRUE],
    [location_code |-> "40", short_name |-> "OK", long_name |-> "Oklahoma", is_state |-> TRUE],
    [location_code |-> "41", short_name |-> "OR", long_name |-> "Oregon", is_state |-> TRUE],
    [location_code |-> "42", short_name |-> "PA", long_name |-> "Pennsylvania", is_state |-> TRUE],
    [location_code |-> "44", short_name |-> "RI", long_name |-> "Rhode Island", is_state |-> TRUE],
    [location_code |-> "45", short_name |-> "SC", long_name |-> "South Carolina", is_state |-> TRUE],
    [location_code |-> "46", short_name |-> "SD", long_name |-> "South Dakota", is_state |-> TRUE],
    [location_code |-> "47", short_name |-> "TN", long_name |-> "Tennessee", is_state |-> TRUE],
    [location_code |-> "48", short_name |-> "TX", long_name |-> "Texas", is_state |-> TRUE],
    [location_code |-> "49", short_name |-> "UT", long_name |-> "Utah", is_state |-> TRUE],
    [location_code |-> "50", short_name |-> "VT", long_name |-> "Vermont", is_state |-> TRUE],
    [location_code |-> "51", short_name |-> "VA", long_name |-> "Virginia", is_state |-> TRUE],
    [location_code |-> "53", short_name |-> "WA", long_name |-> "Washington", is_state |-> TRUE],
    [location_code |-> "54", short_name |-> "WV", long_name |-> "West Virginia", is_state |-> TRUE],
    [location_code |-> "55", short_name |-> "WI", long_name |-> "Wisconsin", is_state |-> TRUE],
    [location_code |-> "56", short_name |-> "WY", long_name |-> "Wyoming", is_state |-> TRUE],
    [location_code |-> "60", short_name |-> "AS", long_name |-> "American Samoa", is_state |-> FALSE],
    [location_code |-> "66", short_name |-> "GU", long_name |-> "Guam", is_state |-> FALSE],
    [location_code |-> "69", short_name |-> "MP", long_name |-> "Northern Mariana Islands", is_state |-> FALSE],
    [location_code |-> "72", short_name |-> "PR", long_name |-> "Puerto Rico", is_state |-> FALSE],
    [location_code |-> "74", short_name |-> "UM", long_name |-> "U.S. Minor Outlying Islands", is_state |-> FALSE],
    [location_code |-> "78", short_name |-> "VI", long_name |-> "Virgin Islands", is_state |-> FALSE]
  >>

\* the row orders the loaded table may have
TableOrders == {LocationTableFile, Reverse(LocationTableFile)}

LocationTableColumns == <<"location_code", "short_name", "long_name", "is_state">>

\* DataFrame.get_column(name).to_list() / df[name].to_list()
get_column(rows, name) == [i \in 1..Len(rows) |-> rows[i][name]]

(* ----------------------------- constants ------------------------------ *)

ALL_LOCATION_CODES == get_column(location_table, "location_code")

DC_FIPS == "11"

PR_FIPS == "72"

LocationCodeLT(a, b) == StrLT(a.location_code, b.location_code)

IsHubRecord(r) == r.is_state \/ r.location_code = DC_FIPS \/ r.location_code = PR_FIPS

\* _build_hub_locations without its .sort("location_code")
build_hub_locations_unsorted(table) ==
  <<"US">> \o get_column(SelectSeq(table, IsHubRecord), "location_code")

\* _build_hub_locations(): filter, sort by location_code, prepend "US"
build_hub_locations(table) ==
  <<"US">> \o get_column(SortSeq(SelectSeq(table, IsHubRecord), LocationCodeLT),
                         "location_code")

\* the three list objects and the dict that names them
FLUSIGHT_LOCATIONS == "FLUSIGHT_LOCATIONS"

COVID_HUB_LOCATIONS == "COVID_HUB_LOCATIONS"

RSV_HUB_LOCATIONS == "RSV_HUB_LOCATIONS"

HUB_LOCATIONS ==
  "flusight" :> FLUSIGHT_LOCATIONS @@ "covid" :> COVID_HUB_LOCATIONS @@
  "rsv" :> RSV_HUB_LOCATIONS

\* the 23 quantile levels, as the strings output_type_id holds
HUBVERSE_QUANTILE_LEVELS ==
  <<"0.01", "0.025", "0.05", "0.1", "0.15", "0.2", "0.25", "0.3", "0.35", "0.4",
    "0.45", "0.5", "0.55", "0.6", "0.65", "0.7", "0.75", "0.8", "0.85", "0.9",
    "0.95", "0.975", "0.99">>

STANDARD_HORIZONS == <<-1, 0, 1, 2, 3>>

\* the submission columns with location and target_end_date exchanged
HUBVERSE_SUBMISSION_COLUMNS_exchanged ==
  <<"reference_date", "target", "horizon", "location", "target_end_date",
    "output_type", "output_type_id", "value">>

HUBVERSE_SUBMISSION_COLUMNS ==
  <<"reference_date", "target", "horizon", "target_end_date", "location",
    "output_type", "output_type_id", "value">>

\* the list object a caller holds after get_hub_locations
CallerList == "caller_list"

Objects == {FLUSIGHT_LOCATIONS, COVID_HUB_LOCATIONS, RSV_HUB_LOCATIONS, CallerList}

(* ------------------------------ tables -------------------------------- *)

\* a DataFrame: its column names in order, and its rows (column name -> value)
NoTable == [columns |-> <<>>, rows |-> <<>>]

\* location values a caller's table may hold: an abbreviation, the national
\* record (abbreviation and code alike), a hub code, a territory code outside
\* the hubs, a value of no record in any representation, a long name
LocSamples == {"AL", "US", "01", "66", "99", "Alabama"}

\* a table of columns location and value; the value column numbers the rows
InputTable(locs) ==
  [columns |-> <<"location", "value">>,
   rows |-> [i \in 1..Len(locs) |-> [location |-> locs[i], value |-> i]]]

\* the caller's tables: up to MaxRows rows of the sample values, and for each
\* record of the location table the one-row table of its abbreviation
InputTables ==
  UNION {{InputTable(locs) : locs \in [1..n -> LocSamples]} : n \in 0..MaxRows}
  \cup {InputTable(<<r.short_name>>) : r \in Range(LocationTableFile)}

\* names a caller passes as location_col; the tables have no column "loc"
LocationCols == {"location", "loc"}

FormatSamples == {"abbr", "hubverse", "long_name", "bad_format"}

\* hub names a caller passes: the three hubs, one in capitals, and no hub
HubSamples == {"flusight", "COVID", "rsv", "flu"}

\* hub names a caller filters by
FilterHubSamples == {"flusight", "COVID", "flu"}

\* DataFrame.is_empty()
is_empty(t) == Len(t.rows) = 0

\* location_col in df.columns
HasColumn(t, c) == In(c, t.columns)

\* Expr.replace(old, new) on one value: mapped when in old, kept otherwise
replace(v, old, new) == IF In(v, old) THEN new[IndexOf(old, v)] ELSE v

\* df.with_columns(pl.col(c).replace(old, new)): a new table
with_columns_replace(t, c, old, new) ==
  [t EXCEPT !.rows =
    [i \in 1..Len(t.rows) |-> [t.rows[i] EXCEPT ![c] = replace(@, old, new)]]]

\* df.filter(pl.col(c).is_in(values)): a new table
filter_is_in(t, c, values) ==
  LET Keep(row) == In(row[c], values)
  IN  [t EXCEPT !.rows = SelectSeq(t.rows, Keep)]

RECURSIVE JoinRows(_, _, _, _)
JoinRows(lrows, rrows, key, cols) ==
  IF lrows = <<>> THEN <<>>
  ELSE LET l == Head(lrows)
           Match(r) == r[key] = l[key]
           matches == SelectSeq(rrows, Match)
       IN  [i \in 1..Len(matches) |->
             [c \in Range(cols) |-> IF c \in DOMAIN l THEN l[c] ELSE matches[i][c]]]
           \o JoinRows(Tail(lrows), rrows, key, cols)

\* left.join(right, on=key, how="inner")
inner_join(left, rcolumns, rrows, key) ==
  LET NotKey(c) == c # key
      cols == left.columns \o SelectSeq(rcolumns, NotKey)
  IN  [columns |-> cols, rows |-> JoinRows(left.rows, rrows, key, cols)]

(* --------------------------- call outcomes ---------------------------- *)

\* raise exc(...): kind is which check failed, names the values and lists the
\* alternatives the message holds
Raise(kind, exc, names, lists) ==
  [ok |-> FALSE, val |-> "none", err |-> kind, exc |-> exc, names |-> names,
   lists |-> lists, table |-> NoTable, ref |-> "none", str |-> ""]

Returned(val, table, ref, str) ==
  [ok |-> TRUE, val |-> val, err |-> "", exc |-> "", names |-> {},
   lists |-> <<>>, table |-> table, ref |-> ref, str |-> str]

ReturnTable(t) == Returned("table", t, "none", "")

ReturnStr(s) == Returned("str", NoTable, "none", s)

\* a reference to a list object of the heap
ReturnList(ref) == Returned("list", NoTable, ref, "")

(* ------------------------- recode_locations.py ------------------------ *)

\* loc_abbr_to_hubverse_code without the check of the values against short_name
loc_abbr_to_hubverse_code_unchecked(t, location_col) ==
  IF is_empty(t) THEN Raise("EmptyInput", "ValueError", {}, <<>>)
  ELSE IF ~HasColumn(t, location_col)
    THEN Raise("MissingColumn", "ValueError", {location_col}, t.columns)
  ELSE ReturnTable(with_columns_replace(t, location_col,
                     get_column(location_table, "short_name"),
                     get_column(location_table, "location_code")))

loc_abbr_to_hubverse_code(t, location_col) ==
  IF is_empty(t) THEN Raise("EmptyInput", "ValueError", {}, <<>>)
  ELSE IF ~HasColumn(t, location_col)
    THEN Raise("MissingColumn", "ValueError", {location_col}, t.columns)
  ELSE
    LET location_values == Range(get_column(t.rows, location_col))
        valid_values == get_column(location_table, "short_name")
        difference == {v \in location_values : ~In(v, valid_values)}
    IN  IF difference # {}
          THEN Raise("InvalidLocationValue", "ValueError", difference, <<>>)
        ELSE ReturnTable(with_columns_replace(t, location_col,
                           get_column(location_table, "short_name"),
                           get_column(location_table, "location_code")))

\* loc_hubverse_code_to_abbr replacing the codes by long_name, not short_name
loc_hubverse_code_to_abbr_long_name(t, location_col) ==
  IF is_empty(t) THEN Raise("EmptyInput", "ValueError", {}, <<>>)
  ELSE IF ~HasColumn(t, location_col)
    THEN Raise("MissingColumn", "ValueError", {location_col}, t.columns)
  ELSE
    LET location_values == Range(get_column(t.rows, location_col))
        valid_values == get_column(location_table, "location_code")
        difference == {v \in location_values : ~In(v, valid_values)}
    IN  IF difference # {}
          THEN Raise("InvalidLocationValue", "ValueError", difference, <<>>)
        ELSE ReturnTable(with_columns_replace(t, location_col,
                           get_column(location_table, "location_code"),
                           get_column(location_table, "long_name")))

loc_hubverse_code_to_abbr(t, location_col) ==
  IF is_empty(t) THEN Raise("EmptyInput", "ValueError", {}, <<>>)
  ELSE IF ~HasColumn(t, location_col)
    THEN Raise("MissingColumn", "ValueError", {location_col}, t.columns)
  ELSE
    LET location_values == Range(get_column(t.rows, location_col))
        valid_values == get_column(location_table, "location_code")
        difference == {v \in location_values : ~In(v, valid_values)}
    IN  IF difference # {}
          THEN Raise("InvalidLocationValue", "ValueError", difference, <<>>)
        ELSE ReturnTable(with_columns_replace(t, location_col,
                           get_column(location_table, "location_code"),
                           get_column(location_table, "short_name")))

col_dict ==
  "abbr" :> "short_name" @@ "hubverse" :> "location_code" @@
  "long_name" :> "long_name"

\* col_dict.keys(), in insertion order
col_dict_keys == <<"abbr", "hubverse", "long_name">>

\* to_location_table_column falling back to location_code for an unknown tag
to_location_table_column_default(location_format) ==
  IF location_format \in DOMAIN col_dict
    THEN ReturnStr(col_dict[location_format])
  ELSE ReturnStr("location_code")

to_location_table_column(location_format) ==
  IF location_format \in DOMAIN col_dict
    THEN ReturnStr(col_dict[location_format])
  ELSE Raise("UnknownFormat", "KeyError", {location_format}, col_dict_keys)

valid_formats == <<"abbr", "hubverse", "long_name">>

\* location_lookup rejecting a vector that holds a value of no record
location_lookup_strict(location_vector, location_format) ==
  IF ~In(location_format, valid_formats)
    THEN Raise("InvalidFormat", "ValueError", {location_format}, valid_formats)
  ELSE IF location_vector = <<>> THEN Raise("EmptyInput", "ValueError", {}, <<>>)
  ELSE
    LET join_key == col_dict[location_format]
        unknown == Range(location_vector) \ Range(get_column(location_table, join_key))
        locs_df ==
          [columns |-> <<join_key>>,
           rows |-> [i \in 1..Len(location_vector) |->
                      (join_key :> location_vector[i])]]
    IN  IF unknown # {}
          THEN Raise("InvalidLocationValue", "ValueError", unknown, <<>>)
        ELSE ReturnTable(inner_join(locs_df, LocationTableColumns,
                                    location_table, join_key))

\* location_lookup without the check that the vector is not empty
location_lookup_no_empty_check(location_vector, location_format) ==
  IF ~In(location_format, valid_formats)
    THEN Raise("InvalidFormat", "ValueError", {location_format}, valid_formats)
  ELSE
    LET join_key == col_dict[location_format]
        locs_df ==
          [columns |-> <<join_key>>,
           rows |-> [i \in 1..Len(location_vector) |->
                      (join_key :> location_vector[i])]]
    IN  ReturnTable(inner_join(locs_df, LocationTableColumns,
                               location_table, join_key))

location_lookup(location_vector, location_format) ==
  IF ~In(location_format, valid_formats)
    THEN Raise("InvalidFormat", "ValueError", {location_format}, valid_formats)
  ELSE IF location_vector = <<>> THEN Raise("EmptyInput", "ValueError", {}, <<>>)
  ELSE
    LET resolved == to_location_table_column(location_format)
    IN  IF ~resolved.ok THEN resolved
        ELSE
          LET join_key == resolved.str
              locs_df ==
                [columns |-> <<join_key>>,
                 rows |-> [i \in 1..Len(location_vector) |->
                            (join_key :> location_vector[i])]]
          IN  ReturnTable(inner_join(locs_df, LocationTableColumns,
                                     location_table, join_key))

\* list(HUB_LOCATIONS.keys())
valid_hubs == <<"flusight", "covid", "rsv">>

\* get_hub_locations returning the hub's own list object, not a copy of it
get_hub_locations_no_copy(hub, h, fresh) ==
  LET hub_lower == Lower(hub)
  IN  IF hub_lower \notin DOMAIN HUB_LOCATIONS
        THEN [out |-> Raise("UnknownHub", "ValueError", {hub}, valid_hubs),
              heap |-> h]
      ELSE [out |-> ReturnList(HUB_LOCATIONS[hub_lower]), heap |-> h]

\* get_hub_locations looking the name up as given, without hub.lower()
get_hub_locations_case_sensitive(hub, h, fresh) ==
  IF hub \notin DOMAIN HUB_LOCATIONS
    THEN [out |-> Raise("UnknownHub", "ValueError", {hub}, valid_hubs), heap |-> h]
  ELSE [out |-> ReturnList(fresh),
        heap |-> [h EXCEPT ![fresh] = h[HUB_LOCATIONS[hub]]]]

\* get_hub_locations(hub) on heap h: the outcome and the heap after it; a
\* .copy() is a new list object, fresh, holding the same elements
get_hub_locations(hub, h, fresh) ==
  LET hub_lower == Lower(hub)
  IN  IF hub_lower \notin DOMAIN HUB_LOCATIONS
        THEN [out |-> Raise("UnknownHub", "ValueError", {hub}, valid_hubs),
              heap |-> h]
      ELSE [out |-> ReturnList(fresh),
            heap |-> [h EXCEPT ![fresh] = h[HUB_LOCATIONS[hub_lower]]]]

\* the list object get_hub_locations makes inside filter_to_hub_locations
TempList == "valid_locations"

\* filter_to_hub_locations keeping every code of the location table
filter_to_hub_locations_all_codes(t, hub, location_col, h) ==
  IF is_empty(t) THEN Raise("EmptyInput", "ValueError", {}, <<>>)
  ELSE IF ~HasColumn(t, location_col)
    THEN Raise("MissingColumn", "ValueError", {location_col}, t.columns)
  ELSE
    LET got == get_hub_locations(hub, h, TempList)
    IN  IF ~got.out.ok THEN got.out
        ELSE ReturnTable(filter_is_in(t, location_col, ALL_LOCATION_CODES))

\* filter_to_hub_locations without the check that the table is not empty
filter_to_hub_locations_no_empty_check(t, hub, location_col, h) ==
  IF ~HasColumn(t, location_col)
    THEN Raise("MissingColumn", "ValueError", {location_col}, t.columns)
  ELSE
    LET got == get_hub_locations(hub, h, TempList)
    IN  IF ~got.out.ok THEN got.out
        ELSE ReturnTable(filter_is_in(t, location_col, got.heap[got.out.ref]))

filter_to_hub_locations(t, hub, location_col, h) ==
  IF is_empty(t) THEN Raise("EmptyInput", "ValueError", {}, <<>>)
  ELSE IF ~HasColumn(t, location_col)
    THEN Raise("MissingColumn", "ValueError", {location_col}, t.columns)
  ELSE
    LET got == get_hub_locations(hub, h, TempList)
    IN  IF ~got.out.ok THEN got.out
        ELSE ReturnTable(filter_is_in(t, location_col, got.heap[got.out.ref]))

(* -------------------------- HubverseAssembler ------------------------- *)

QuantileColumns == <<"location", "time_point", "quantile_level", "quantile_value">>

\* the quantile table of the caller's table: one time point, one level, the
\* columns in the given order
QuantileTable(t, columns, level) ==
  [columns |-> columns,
   rows |-> [i \in 1..Len(t.rows) |->
              [location |-> t.rows[i].location, time_point |-> 1,
               quantile_level |-> level, quantile_value |-> t.rows[i].value]]]

\* the metadata of time point 1
Metadata ==
  1 :> [reference_date |-> "2024-09-28", target |-> "wk inc flu hosp",
        horizon |-> STANDARD_HORIZONS[2], target_end_date |-> "2024-09-28"]

\* no time point has metadata
NoMetadata == <<>>

\* what a caller passes to assemble besides its table: the column order of the
\* quantile table, its level, the metadata, the hub, and whether the locations
\* are abbreviations to recode
AssembleInputs ==
  {[columns |-> QuantileColumns, level |-> "0.5", metadata |-> Metadata,
    hub |-> "flusight", recode |-> FALSE],
   [columns |-> Reverse(QuantileColumns), level |-> "0.975", metadata |-> Metadata,
    hub |-> "COVID", recode |-> TRUE],
   [columns |-> QuantileColumns, level |-> "0.5", metadata |-> NoMetadata,
    hub |-> "rsv", recode |-> FALSE],
   [columns |-> QuantileColumns, level |-> "0.42", metadata |-> Metadata,
    hub |-> "rsv", recode |-> FALSE],
   [columns |-> Reverse(QuantileColumns), level |-> "0.5", metadata |-> Metadata,
    hub |-> "flu", recode |-> FALSE]}

\* the name a column of the quantile table has in the submission
SubmissionName(c) ==
  CASE c = "quantile_level" -> "output_type_id"
    [] c = "quantile_value" -> "value"
    [] OTHER -> c

\* one SubmissionRow per row of the quantile table, the columns in the order
\* they are made in: those of the quantile table, then those of the metadata
SubmissionRows(qt, metadata) ==
  LET NotTime(c) == c # "time_point"
      kept == SelectSeq(qt.columns, NotTime)
  IN  [columns |-> [i \in 1..Len(kept) |-> SubmissionName(kept[i])]
                   \o <<"reference_date", "target", "horizon", "target_end_date",
                        "output_type">>,
       rows |-> [i \in 1..Len(qt.rows) |->
                  LET q == qt.rows[i]
                      m == metadata[q.time_point]
                  IN  [reference_date |-> m.reference_date, target |-> m.target,
                       horizon |-> m.horizon, target_end_date |-> m.target_end_date,
                       location |-> q.location, output_type |-> "quantile",
                       output_type_id |-> q.quantile_level,
                       value |-> q.quantile_value]]]

\* df.select(columns)
select(t, columns) ==
  [columns |-> columns,
   rows |-> [i \in 1..Len(t.rows) |-> [c \in Range(columns) |-> t.rows[i][c]]]]

\* assemble(quantile_table, metadata, hub_name, location_registry)
get_hubverse_table(qt, metadata, hub, recode, h) ==
  IF \E i \in 1..Len(qt.rows) : qt.rows[i].time_point \notin DOMAIN metadata
    THEN Raise("SchemaViolation", "ValueError",
               {"reference_date", "target", "horizon", "target_end_date"}, <<>>)
  ELSE IF \E i \in 1..Len(qt.rows) :
            qt.rows[i].quantile_level \notin Range(HUBVERSE_QUANTILE_LEVELS)
    THEN Raise("InvalidQuantileLevels", "ValueError",
               {qt.rows[i].quantile_level : i \in 1..Len(qt.rows)}
                 \ Range(HUBVERSE_QUANTILE_LEVELS), <<>>)
  ELSE
    LET recoded == IF recode THEN loc_abbr_to_hubverse_code(qt, "location")
                   ELSE ReturnTable(qt)
        got == get_hub_locations(hub, h, TempList)
    IN  IF ~recoded.ok THEN recoded
        ELSE IF ~got.out.ok THEN got.out
        ELSE
          LET hub_codes == got.heap[got.out.ref]
              outside == {v \in Range(get_column(recoded.table.rows, "location")) :
                           ~In(v, hub_codes)}
          IN  IF outside # {}
                THEN Raise("InvalidLocation", "ValueError", outside, <<>>)
              ELSE ReturnTable(select(SubmissionRows(recoded.table, metadata),
                                      HUBVERSE_SUBMISSION_COLUMNS))

(* ----------------------------- the session ---------------------------- *)

\* one call: the operation, its arguments and its outcome
Record(op, arg, col, hub, fmt, vec, out) ==
  [op |-> op, arg |-> arg, col |-> col, hub |-> hub, fmt |-> fmt, vec |-> vec,
   out |-> out]

NoCall == Record("none", NoTable, "", "", "", <<>>, Raise("", "", {}, <<>>))

\* the tables the caller has at hand: its own, and the one just returned by
\* a call on its own
Args ==
  {df} \cup (IF ret.out.val = "table" /\ ret.arg = df
               THEN {ret.out.table} ELSE {})

\* the step a call on table t continues from: the call that returned t
Before(t) == IF t = df THEN NoCall ELSE ret

\* import forecasttools: the table is read, the hub lists are built from it
Init ==
  /\ location_table \in TableOrders
  /\ heap = [o \in Objects \cup {TempList} |->
              IF o \in {FLUSIGHT_LOCATIONS, COVID_HUB_LOCATIONS, RSV_HUB_LOCATIONS}
                THEN build_hub_locations(location_table)
              ELSE <<>>]
  /\ df \in InputTables
  /\ held = "none"
  /\ prev = NoCall
  /\ ret = NoCall

CallAbbrToCode ==
  \E t \in Args, c \in LocationCols :
    /\ ret' = Record("loc_abbr_to_hubverse_code", t, c, "", "", <<>>,
                     loc_abbr_to_hubverse_code(t, c))
    /\ prev' = Before(t)
    /\ UNCHANGED <<location_table, heap, df, held>>

CallCodeToAbbr ==
  \E t \in Args, c \in LocationCols :
    /\ ret' = Record("loc_hubverse_code_to_abbr", t, c, "", "", <<>>,
                     loc_hubverse_code_to_abbr(t, c))
    /\ prev' = Before(t)
    /\ UNCHANGED <<location_table, heap, df, held>>

CallToColumn ==
  \E f \in FormatSamples :
    /\ ret' = Record("to_location_table_column", NoTable, "", "", f, <<>>,
                     to_location_table_column(f))
    /\ prev' = NoCall
    /\ UNCHANGED <<location_table, heap, df, held>>

\* the caller looks up the location column of its table
CallLookup ==
  \E f \in FormatSamples :
    LET vec == get_column(df.rows, "location")
    IN  /\ ret' = Record("location_lookup", NoTable, "", "", f, vec,
                         location_lookup(vec, f))
        /\ prev' = NoCall
        /\ UNCHANGED <<location_table, heap, df, held>>

CallGetHubLocations ==
  \E hub \in HubSamples :
    LET got == get_hub_locations(hub, heap, CallerList)
    IN  /\ ret' = Record("get_hub_locations", NoTable, "", hub, "", <<>>, got.out)
        /\ heap' = got.heap
        /\ held' = IF got.out.ok THEN got.out.ref ELSE held
        /\ prev' = IF ret.op = "caller_mutation" THEN ret ELSE NoCall
        /\ UNCHANGED <<location_table, df>>

CallFilterToHub ==
  \E t \in Args, hub \in FilterHubSamples, c \in LocationCols :
    /\ ret' = Record("filter_to_hub_locations", t, c, hub, "", <<>>,
                     filter_to_hub_locations(t, hub, c, heap))
    /\ prev' = Before(t)
    /\ UNCHANGED <<location_table, heap, df, held>>

\* the caller assembles a submission from the quantile table of its table
CallGetHubverseTable ==
  \E in \in AssembleInputs :
    LET qt == QuantileTable(df, in.columns, in.level)
    IN  /\ ret' = Record("get_hubverse_table", qt, "location", in.hub, "", <<>>,
                         get_hubverse_table(qt, in.metadata, in.hub, in.recode, heap))
        /\ prev' = NoCall
        /\ UNCHANGED <<location_table, heap, df, held>>

\* the caller changes the list it was handed: lst.append("99")
CallerMutates ==
  /\ held # "none"
  /\ Count(heap[held], "99") < MaxAppend
  /\ heap' = [heap EXCEPT ![held] = Append(@, "99")]
  /\ ret' = Record("caller_mutation", NoTable, "", "", "", <<>>, Raise("", "", {}, <<>>))
  /\ prev' = NoCall
  /\ UNCHANGED <<location_table, df, held>>

Next ==
  \/ CallAbbrToCode
  \/ CallCodeToAbbr
  \/ CallToColumn
  \/ CallLookup
  \/ CallGetHubLocations
  \/ CallFilterToHub
  \/ CallGetHubverseTable
  \/ CallerMutates

Spec == Init /\ [][Next]_vars

(* ------------------------------ claims -------------------------------- *)

\* int(code) of a string of decimal digits
RECURSIVE DigitsValue(_)
DigitsValue(cs) ==
  IF cs = <<>> THEN 0 ELSE 10 * DigitsValue(SubSeq(cs, 1, Len(cs) - 1)) + (cs[Len(cs)] - 48)

FipsNumber(code) == DigitsValue(Chars(code))

StateCodes == {r.location_code : r \in {x \in Range(location_table) : x.is_state}}

\* C1: for every hub name of flusight, covid, rsv, the list get_hub_locations
\* returns is "US" followed by the codes of the state records, "11" and "72"
\* in ascending numeric order: 53 entries, "US" first, no duplicates, a strict
\* subset of ALL_LOCATION_CODES.
C1_HubLocations ==
  (ret.op = "get_hub_locations" /\ Lower(ret.hub) \in {"flusight", "covid", "rsv"}) =>
    /\ ret.out.ok
    /\ LET l == heap[ret.out.ref]
       IN  /\ Len(l) = 53
           /\ l[1] = "US"
           /\ Range(Tail(l)) = StateCodes \cup {"11", "72"}
           /\ \A i \in 2..(Len(l) - 1) : FipsNumber(l[i]) < FipsNumber(l[i + 1])
           /\ Cardinality(Range(l)) = Len(l)
           /\ Range(l) \subseteq Range(ALL_LOCATION_CODES)
           /\ Range(l) # Range(ALL_LOCATION_CODES)

\* a hub's list has been returned from a table loaded in descending order
C1_Witness ==
  /\ ret.op = "get_hub_locations"
  /\ ret.hub = "COVID"
  /\ ret.out.ok
  /\ location_table = Reverse(LocationTableFile)
  /\ Len(heap[ret.out.ref]) = 53

ShortNames == Range(get_column(location_table, "short_name"))

LocationCodes == Range(ALL_LOCATION_CODES)

\* the values of column c of table t
ColumnValues(t, c) == IF HasColumn(t, c) THEN Range(get_column(t.rows, c)) ELSE {}

\* C2: a non-empty table whose location column holds abbreviations of records
\* (of any record, repeats allowed) is recoded to codes without error, and
\* recoding that result back to abbreviations succeeds and gives the original
\* table, row for row.
C2_RoundTrip ==
  /\ (/\ ret.op = "loc_abbr_to_hubverse_code"
      /\ ~is_empty(ret.arg)
      /\ HasColumn(ret.arg, ret.col)
      /\ ColumnValues(ret.arg, ret.col) \subseteq ShortNames)
     => ret.out.ok /\ ret.out.val = "table"
  /\ (/\ prev.op = "loc_abbr_to_hubverse_code"
      /\ ret.op = "loc_hubverse_code_to_abbr"
      /\ ret.arg = prev.out.table
      /\ ret.col = prev.col)
     => ret.out.ok /\ ret.out.table = prev.arg

\* two rows with abbreviations, one repeated state and the nation, went to
\* codes and back
C2_Witness ==
  /\ prev.op = "loc_abbr_to_hubverse_code"
  /\ ret.op = "loc_hubverse_code_to_abbr"
  /\ ret.arg = prev.out.table
  /\ ret.col = prev.col
  /\ get_column(prev.arg.rows, "location") = <<"AL", "US">>
  /\ get_column(ret.arg.rows, "location") = <<"01", "US">>
  /\ ret.out.ok

\* the column of the location table a format tag stands for
FormatColumn(f) ==
  CASE f = "abbr" -> "short_name"
    [] f = "hubverse" -> "location_code"
    [] f = "long_name" -> "long_name"

\* C3: location_lookup is an inner join on the format's column: each record
\* of the location table appears once per entry of the vector that equals its
\* key, entries that match no record give no row and no error.
C3_LookupInnerJoin ==
  (/\ ret.op = "location_lookup"
   /\ ret.fmt \in {"abbr", "hubverse", "long_name"}
   /\ ret.vec # <<>>) =>
    /\ ret.out.ok
    /\ ret.out.val = "table"
    /\ LET key == FormatColumn(ret.fmt)
           rows == ret.out.table.rows
           keys == Range(get_column(location_table, key))
       IN  /\ Range(ret.out.table.columns) = Range(LocationTableColumns)
           /\ \A rec \in Range(location_table) :
                Cardinality({i \in 1..Len(rows) :
                              \A c \in Range(LocationTableColumns) : rows[i][c] = rec[c]})
                  = Count(ret.vec, rec[key])
           /\ Len(rows) = Cardinality({i \in 1..Len(ret.vec) : ret.vec[i] \in keys})

\* "99", no abbreviation, was looked up as one and gave an empty table
C3_Witness ==
  /\ ret.op = "location_lookup"
  /\ ret.fmt = "abbr"
  /\ ret.vec = <<"99">>
  /\ ret.out.ok
  /\ ret.out.table.rows = <<>>

RecognizedHub(hub) == Lower(hub) \in {"flusight", "covid", "rsv"}

\* the codes of a hub, as the package holds them
HubCodes(hub) == Range(heap[HUB_LOCATIONS[Lower(hub)]])

\* C4: on a non-empty table that has the column, for a recognized hub,
\* filter_to_hub_locations returns the rows whose location is a code of the
\* hub, in their order, each row as it was, and no other row.
C4_FilterToHub ==
  (/\ ret.op = "filter_to_hub_locations"
   /\ ~is_empty(ret.arg)
   /\ HasColumn(ret.arg, ret.col)
   /\ RecognizedHub(ret.hub)) =>
    /\ ret.out.ok
    /\ ret.out.val = "table"
    /\ LET rows == ret.out.table.rows
           kept == {r \in Range(ret.arg.rows) : r[ret.col] \in HubCodes(ret.hub)}
       IN  /\ ret.out.table.columns = ret.arg.columns
           /\ Range(rows) = kept
           /\ Len(rows) = Cardinality(kept)
           /\ \A i \in 1..Len(rows), j \in 1..Len(rows) :
                i < j => rows[i].value < rows[j].value

\* a table with location "99" and a hub code lost the row of "99" only
C4_Witness ==
  /\ ret.op = "filter_to_hub_locations"
  /\ ret.out.ok
  /\ get_column(ret.arg.rows, "location") = <<"99", "01">>
  /\ ret.out.table.rows = <<ret.arg.rows[2]>>

\* what a recode call r must do when its input is bad; valid is the set of
\* values of the source representation
RecodeFailsFast(r, valid) ==
  LET empty == is_empty(r.arg)
      missing == ~HasColumn(r.arg, r.col)
      offending == ColumnValues(r.arg, r.col) \ valid
  IN  \* a bad input fails, and nothing is returned
      /\ (empty \/ missing \/ offending # {}) =>
            ~r.out.ok /\ r.out.val = "none" /\ r.out.table = NoTable
      \* the error is one whose condition holds
      /\ ~r.out.ok =>
            /\ r.out.err \in {"EmptyInput", "MissingColumn", "InvalidLocationValue"}
            /\ r.out.err = "EmptyInput" => empty
            /\ r.out.err = "MissingColumn" => missing /\ r.col \in r.out.names
            /\ r.out.err = "InvalidLocationValue" =>
                 offending # {} /\ r.out.names = offending
      \* in the order of the checks when more than one holds
      /\ empty => r.out.err = "EmptyInput"
      /\ (~empty /\ missing) => r.out.err = "MissingColumn"
      /\ (~empty /\ ~missing /\ offending # {}) => r.out.err = "InvalidLocationValue"

\* C5: a recode call in either direction fails when the table has no rows
\* (EmptyInput), when the column is absent (MissingColumn) or when a value of
\* the column is outside the source representation (InvalidLocationValue,
\* the error holding exactly the offending values); the error is one whose
\* condition holds, the first of these when several hold; a failing call
\* returns no table.
C5_RecodeFailsFast ==
  /\ ret.op = "loc_abbr_to_hubverse_code" => RecodeFailsFast(ret, ShortNames)
  /\ ret.op = "loc_hubverse_code_to_abbr" => RecodeFailsFast(ret, LocationCodes)

\* a table with one abbreviation and one code was refused in abbr->hubverse
C5_Witness ==
  /\ ret.op = "loc_abbr_to_hubverse_code"
  /\ get_column(ret.arg.rows, "location") = <<"AL", "01">>
  /\ ret.col = "location"
  /\ ret.out.err = "InvalidLocationValue"
  /\ ret.out.names = {"01"}

\* C6: no step, a call of the registry (one that returns or one that raises)
\* or an append by the caller to the list it was handed, changes the location
\* table, the list of any hub or the caller's table.
C6_NoWrites ==
  [][/\ location_table' = location_table
     /\ \A hub \in DOMAIN HUB_LOCATIONS :
          heap'[HUB_LOCATIONS[hub]] = heap[HUB_LOCATIONS[hub]]
     /\ df' = df]_vars

\* the caller appended to the list it was handed and then asked for the same
\* hub's list again
C6_Witness ==
  /\ prev.op = "caller_mutation"
  /\ ret.op = "get_hub_locations"
  /\ ret.hub = "flusight"
  /\ ret.out.ok
  /\ heap[held] = heap[FLUSIGHT_LOCATIONS]
  /\ Len(heap[held]) = 53

\* C7: to_location_table_column gives short_name for abbr, location_code for
\* hubverse, long_name for long_name; any other tag is refused with
\* UnknownFormat, the error naming the tag and listing the three valid tags.
C7_ToColumn ==
  ret.op = "to_location_table_column" =>
    /\ ret.fmt = "abbr" => ret.out.ok /\ ret.out.str = "short_name"
    /\ ret.fmt = "hubverse" => ret.out.ok /\ ret.out.str = "location_code"
    /\ ret.fmt = "long_name" => ret.out.ok /\ ret.out.str = "long_name"
    /\ ret.fmt \notin {"abbr", "hubverse", "long_name"} =>
         /\ ~ret.out.ok
         /\ ret.out.err = "UnknownFormat"
         /\ ret.fmt \in ret.out.names
         /\ Range(ret.out.lists) = {"abbr", "hubverse", "long_name"}
         /\ Len(ret.out.lists) = 3

\* the tag bad_format was refused
C7_Witness ==
  /\ ret.op = "to_location_table_column"
  /\ ret.fmt = "bad_format"
  /\ ret.out.err = "UnknownFormat"

\* C8: filter_to_hub_locations fails when the table has no rows (EmptyInput),
\* when the column is absent (MissingColumn) or when the lower-cased hub name
\* is no hub (UnknownHub), which is when get_hub_locations refuses the name;
\* the error is one whose condition holds, the first of these when several
\* hold. Otherwise it returns a table, an empty one when no row matches.
C8_FilterErrors ==
  /\ ret.op = "filter_to_hub_locations" =>
       LET empty == is_empty(ret.arg)
           missing == ~HasColumn(ret.arg, ret.col)
           unknown == ~RecognizedHub(ret.hub)
       IN  /\ (empty \/ missing \/ unknown) => ~ret.out.ok /\ ret.out.val = "none"
           /\ ~ret.out.ok =>
                /\ ret.out.err \in {"EmptyInput", "MissingColumn", "UnknownHub"}
                /\ ret.out.err = "EmptyInput" => empty
                /\ ret.out.err = "MissingColumn" => missing
                /\ ret.out.err = "UnknownHub" => unknown /\ ret.hub \in ret.out.names
           /\ empty => ret.out.err = "EmptyInput"
           /\ (~empty /\ missing) => ret.out.err = "MissingColumn"
           /\ (~empty /\ ~missing /\ unknown) => ret.out.err = "UnknownHub"
           /\ (~empty /\ ~missing /\ ~unknown) =>
                /\ ret.out.ok
                /\ ret.out.val = "table"
                /\ (ColumnValues(ret.arg, ret.col) \cap HubCodes(ret.hub) = {}) =>
                     /\ ret.out.table.rows = <<>>
                     /\ ret.out.table.columns = ret.arg.columns
  /\ ret.op = "get_hub_locations" =>
       /\ ret.out.ok <=> RecognizedHub(ret.hub)
       /\ ~ret.out.ok => ret.out.err = "UnknownHub" /\ ret.hub \in ret.out.names

\* a hub named in capitals was accepted and no row matched
C8_Witness ==
  /\ ret.op = "filter_to_hub_locations"
  /\ ret.hub = "COVID"
  /\ ~is_empty(ret.arg)
  /\ ret.out.ok
  /\ ret.out.table.rows = <<>>

\* C9: location_lookup fails when the vector is empty (EmptyInput) and when
\* the format is none of abbr, hubverse, long_name (InvalidFormat); the error
\* is one whose condition holds, InvalidFormat when both hold; a failing call
\* returns no table.
C9_LookupErrors ==
  ret.op = "location_lookup" =>
    LET badformat == ret.fmt \notin {"abbr", "hubverse", "long_name"}
        empty == ret.vec = <<>>
    IN  /\ (empty \/ badformat) =>
             ~ret.out.ok /\ ret.out.val = "none" /\ ret.out.table = NoTable
        /\ ~ret.out.ok =>
             /\ ret.out.err \in {"EmptyInput", "InvalidFormat"}
             /\ ret.out.err = "EmptyInput" => empty
             /\ ret.out.err = "InvalidFormat" => badformat /\ ret.fmt \in ret.out.names
        /\ badformat => ret.out.err = "InvalidFormat"
        /\ (empty /\ ~badformat) => ret.out.err = "EmptyInput"

\* an empty vector was looked up in a recognized format
C9_Witness ==
  /\ ret.op = "location_lookup"
  /\ ret.vec = <<>>
  /\ ret.fmt = "hubverse"
  /\ ret.out.err = "EmptyInput"

AfterFilter ==
  /\ prev.op = "filter_to_hub_locations"
  /\ prev.out.ok
  /\ RecognizedHub(prev.hub)
  /\ ret.arg = prev.out.table
  /\ ret.col = prev.col

RecodeOps == {"loc_abbr_to_hubverse_code", "loc_hubverse_code_to_abbr"}

\* C11: when filter_to_hub_locations returns at least one row, filtering its
\* result again by the same hub and column returns that result unchanged,
\* and recoding the result from codes to abbreviations succeeds, never
\* failing with InvalidLocationValue; when it returns no row, filtering or
\* recoding its result fails with EmptyInput.
C11_FilterComposes ==
  \* a table of hub members only is returned as it is
  /\ (/\ ret.op = "filter_to_hub_locations"
      /\ ret.out.ok
      /\ ret.arg.rows # <<>>
      /\ ColumnValues(ret.arg, ret.col) \subseteq HubCodes(ret.hub))
     => ret.out.table = ret.arg
  /\ (AfterFilter /\ ret.arg.rows # <<>>) =>
       /\ ColumnValues(ret.arg, ret.col) \subseteq HubCodes(prev.hub)
       /\ ColumnValues(ret.arg, ret.col) \subseteq LocationCodes
       /\ (ret.op = "filter_to_hub_locations" /\ ret.hub = prev.hub) =>
            ret.out.ok /\ ret.out.table = ret.arg
       /\ ret.op = "loc_hubverse_code_to_abbr" =>
            /\ ret.out.err # "InvalidLocationValue"
            /\ ret.out.ok
            /\ ret.out.table.columns = ret.arg.columns
            /\ Len(ret.out.table.rows) = Len(ret.arg.rows)
            /\ ColumnValues(ret.out.table, ret.col) \subseteq ShortNames
  /\ (/\ AfterFilter
      /\ ret.arg.rows = <<>>
      /\ ret.op \in RecodeOps \cup {"filter_to_hub_locations"}) =>
         /\ ~ret.out.ok
         /\ ret.out.err = "EmptyInput"
         /\ ret.out.val = "none"

\* a filter left no row of a table of "99" and "66", and filtering its result
\* again by the same hub was refused
C11_Witness ==
  /\ AfterFilter
  /\ get_column(prev.arg.rows, "location") = <<"99", "66">>
  /\ ret.arg.rows = <<>>
  /\ ret.op = "filter_to_hub_locations"
  /\ ret.hub = prev.hub
  /\ ret.out.err = "EmptyInput"

\* a filter kept the hub code of a table of "99" and "01", and filtering its
\* result again returned it unchanged
C11_Idempotent ==
  /\ AfterFilter
  /\ get_column(prev.arg.rows, "location") = <<"99", "01">>
  /\ ret.op = "filter_to_hub_locations"
  /\ ret.hub = prev.hub
  /\ ret.out.ok
  /\ get_column(ret.out.table.rows, "location") = <<"01">>

\* a filter kept the rows of "01" and "US", and its result was recoded to
\* abbreviations
C11_Recoded ==
  /\ AfterFilter
  /\ get_column(prev.arg.rows, "location") = <<"66", "01">>
  /\ ret.op = "loc_hubverse_code_to_abbr"
  /\ ret.out.ok
  /\ get_column(ret.out.table.rows, "location") = <<"AL">>

====
